---- MODULE Spec2Model ----
(***************************************************************************)
(* A model of the Trainer (src/utils/trainer/trainer.py) and of the        *)
(* ConvLSTM encoder/forecast stack (src/nn/ConvLSTM/ConvLSTM.py).          *)
(*                                                                         *)
(* Tensors are abstracted to what the control flow decides about them:    *)
(*   - model / optimizer / scheduler state is the number of               *)
(*     optimizer_step() / lr_scheduler_step() calls applied to it since    *)
(*     the fresh (0) or loaded state;                                      *)
(*   - a step output is its Python type ("tensor", a dict with or without  *)
(*     the key 'loss', or anything else);                                  *)
(*   - a hidden state h[i] records how many times the cell of layer i      *)
(*     updated it and which input that last update read.                   *)
(***************************************************************************)
EXTENDS Integers, Sequences, FiniteSets, TLC

\* ------------------------------------------------------------------ bounds
MaxEpoch == 3
MaxTrain == 2
MaxVal == 2
MaxTest == 2
MaxSeq == 3
MaxLayers == 3
MaxOut == 3

VARIABLES
    \* ---- Trainer: the call and its arguments
    op,                 \* "fit" | "predict"
    pc,                 \* position in the running method
    max_epoch,          \* self.max_epoch
    ckpt_path,          \* "none" | "missing" | "ioerror" | "ok"
    ckpt_file,          \* the checkpoint dict stored at ckpt_path (when "ok")
    nTrain,             \* len(train_loader) of fit
    nVal,               \* len(validation_loader)
    nTest,              \* len(test_loader)
    trainKinds,         \* trainKinds[b]: type of what model.training_step
                        \* returns on batch b of train_loader
    valKind,            \* type of what model.validation_step returns
    hasScheduler,       \* model.lr_scheduler is not None
    global_train_loader,\* the module-level name train_loader: <<>> when it is
                        \* not defined, <<n>> when it is a loader of n batches
    \* ---- the model object
    params,             \* model.state_dict()
    optState,           \* model.optimizer.state_dict()
    schedState,         \* model.lr_scheduler.state_dict()
    grad,               \* "stale" | "none" (zero_grad(set_to_none)) | "fresh"
    mode,               \* "init" | "train" | "eval"
    \* ---- locals of fit / predict
    start_epoch,
    epoch,
    batch_index,
    training_outs,
    val_index,
    loss_list,
    epochs_run,         \* the values the loop variable epoch has taken
    total_outputs,
    \* ---- the outside world
    monitor,            \* "idle" | "started" | "stopped"
    stderr,             \* what sys.stderr.write received, in order
    written,            \* the dicts torch.save wrote in fit, in order
    prediction_file,    \* <<>> while no prediction.pth was written, else
                        \* <<rows>>: the tensor predict saved
    raised,             \* the exception that left the method, or "none"
    \* ---- ConvLSTM.forward
    fpc,                \* position in forward
    sequence,           \* S: inputs.shape[1]
    layers,             \* len(hidden_channels_list)
    out_len,
    s,                  \* time steps of the encoder completed
    step,               \* forecast steps completed
    li,                 \* the layer the inner loop is at (1-based)
    h,                  \* h[i]: the inputs folded into layer i's hidden state
    c,                  \* c[i]: the inputs folded into layer i's cell state
    prediction,         \* the list of predicted frames
    fraised             \* the exception that left forward, or "none"

tvars == <<op, pc, max_epoch, ckpt_path, ckpt_file, nTrain, nVal, nTest,
           trainKinds, valKind, hasScheduler, global_train_loader,
           params, optState, schedState, grad, mode,
           start_epoch, epoch, batch_index, training_outs, val_index,
           loss_list, epochs_run, total_outputs,
           monitor, stderr, written, prediction_file, raised>>

fvars == <<fpc, sequence, layers, out_len, s, step, li, h, c, prediction,
           fraised>>

vars == <<tvars, fvars>>

Kinds == {"tensor", "dict_loss", "dict_noloss", "other"}

\* ------------------------------------------------------- checkpoint dicts
\* A checkpoint a previous fit of `e` epochs left on disk.
DiskCheckpoint(e, withSched) ==
    IF withSched
    THEN [epoch |-> e, state_dict |-> e * MaxTrain, optimizer |-> e * MaxTrain,
          lr_scheduler |-> e * MaxTrain]
    ELSE [epoch |-> e, state_dict |-> e * MaxTrain, optimizer |-> e * MaxTrain]

NoCheckpoint == [epoch |-> 0, state_dict |-> 0, optimizer |-> 0]

\* trainer.py 139-145: the dict fit saves at the end of an epoch.
StatesDict_NoScheduler(ep, p, o, ls, sched) ==
    [epoch |-> ep, state_dict |-> p, optimizer |-> o]

StatesDict(ep, p, o, ls, sched) ==
    IF sched
    THEN [epoch |-> ep, state_dict |-> p, optimizer |-> o, lr_scheduler |-> ls]
    ELSE [epoch |-> ep, state_dict |-> p, optimizer |-> o]

\* ------------------------------------------------------------- messages
TrainLossMsg == "if the training outputs is a dictionary, it must has a key named 'loss'."
ValLossMsg == "if the validation outputs is a dictionary, it must has a key named 'loss'."
NotExistMsg == "the file does not exist."
LoadWrongMsg == "there is some wrong when loading parameters"

\* ------------------------------------------------- what one line decides
\* trainer.py 78-86: what fit does with the output of a training step:
\* whether backward() ran, what went to stderr, what was raised.
BackwardOutcome_SilentKeyError(kind) ==
    CASE kind = "tensor"      -> [backward |-> TRUE,  err |-> <<>>, exc |-> "none"]
      [] kind = "dict_loss"   -> [backward |-> TRUE,  err |-> <<>>, exc |-> "none"]
      [] kind = "dict_noloss" -> [backward |-> FALSE, err |-> <<>>, exc |-> "none"]
      [] OTHER                -> [backward |-> FALSE, err |-> <<>>, exc |-> "TypeError"]

BackwardOutcome(kind) ==
    CASE kind = "tensor"      -> [backward |-> TRUE,  err |-> <<>>, exc |-> "none"]
      [] kind = "dict_loss"   -> [backward |-> TRUE,  err |-> <<>>, exc |-> "none"]
      [] kind = "dict_noloss" -> [backward |-> FALSE, err |-> <<TrainLossMsg>>, exc |-> "none"]
      [] OTHER                -> [backward |-> FALSE, err |-> <<>>, exc |-> "TypeError"]

\* trainer.py 114-123: what fit does with the output of a validation step.
ValidationOutcome(kind) ==
    CASE kind = "tensor"      -> [loss |-> TRUE,  err |-> <<>>, exc |-> "none"]
      [] kind = "dict_loss"   -> [loss |-> TRUE,  err |-> <<>>, exc |-> "none"]
      [] kind = "dict_noloss" -> [loss |-> FALSE, err |-> <<ValLossMsg>>, exc |-> "none"]
      [] OTHER                -> [loss |-> FALSE, err |-> <<>>, exc |-> "TypeError"]

\* torch.cat(total_outputs, dim=0): the rows of the outputs, in list order.
RECURSIVE Cat(_)
Cat(outs) == IF outs = <<>> THEN <<>> ELSE Head(outs) \o Cat(Tail(outs))

\* model.predict_step on batch b of the loader: one row per batch, tagged
\* with the batch and with the parameters that computed it.
PredictStep(b, p) == << [batch |-> b, params |-> p] >>

\* ------------------------------------------------------------------ Init
TrainerLocals ==
    /\ params = 0 /\ optState = 0 /\ schedState = 0
    /\ grad = "stale" /\ mode = "init"
    /\ start_epoch = 1 /\ epoch = 0 /\ batch_index = 0
    /\ training_outs = "unset" /\ val_index = 0 /\ loss_list = 0
    /\ epochs_run = <<>> /\ total_outputs = <<>>
    /\ monitor = "idle" /\ stderr = <<>> /\ written = <<>>
    /\ prediction_file = <<>> /\ raised = "none"

CkptChoice ==
    \/ /\ ckpt_path \in {"missing", "ioerror"}
       /\ ckpt_file = NoCheckpoint
    \/ /\ ckpt_path = "ok"
       /\ \E e \in 1..MaxEpoch, ws \in BOOLEAN : ckpt_file = DiskCheckpoint(e, ws)

InitFit ==
    /\ op = "fit" /\ pc = "fit_load"
    /\ max_epoch \in 1..MaxEpoch
    /\ \/ ckpt_path = "none" /\ ckpt_file = NoCheckpoint
       \/ CkptChoice
    /\ nTrain \in 0..MaxTrain
    /\ nVal \in 0..MaxVal
    /\ nTest = 0
    /\ trainKinds \in [1..nTrain -> Kinds]
    /\ valKind \in Kinds
    /\ hasScheduler \in BOOLEAN
    /\ global_train_loader = <<>>
    /\ TrainerLocals

InitPredict ==
    /\ op = "predict" /\ pc = "predict_load"
    /\ max_epoch \in 1..MaxEpoch
    /\ CkptChoice
    /\ nTrain = 0 /\ nVal = 0
    /\ nTest \in 0..MaxTest
    /\ trainKinds = <<>> /\ valKind = "tensor"
    /\ hasScheduler \in BOOLEAN
    /\ global_train_loader \in {<<>>} \cup {<<n>> : n \in 0..MaxTrain}
    /\ TrainerLocals

InitTrainer == InitFit \/ InitPredict

\* ------------------------------------------------------------------- fit
Raise(exc) == /\ raised' = exc /\ pc' = "raised"

\* trainer.py 47-54: start_epoch and the optional resume from ckpt_path.
FitLoad ==
    /\ pc = "fit_load"
    /\ CASE ckpt_path = "none" ->
              /\ start_epoch' = 1
              /\ pc' = "fit_setup"
              /\ UNCHANGED <<params, optState, schedState, raised>>
         [] ckpt_path = "missing" ->
              /\ Raise("FileNotFoundError")
              /\ UNCHANGED <<start_epoch, params, optState, schedState>>
         [] ckpt_path = "ioerror" ->
              /\ Raise("IOError")
              /\ UNCHANGED <<start_epoch, params, optState, schedState>>
         [] OTHER ->
              /\ params' = ckpt_file.state_dict
              /\ start_epoch' = ckpt_file.epoch + 1
              /\ optState' = ckpt_file.optimizer
              /\ schedState' = IF "lr_scheduler" \in DOMAIN ckpt_file /\ hasScheduler
                               THEN ckpt_file.lr_scheduler ELSE schedState
              /\ pc' = "fit_setup"
              /\ UNCHANGED raised
    /\ UNCHANGED fvars
    /\ UNCHANGED <<op, max_epoch, ckpt_path, ckpt_file, nTrain, nVal, nTest,
                   trainKinds, valKind, hasScheduler, global_train_loader,
                   grad, mode, epoch, batch_index, training_outs, val_index,
                   loss_list, epochs_run, total_outputs, monitor, stderr, written,
                   prediction_file>>

\* trainer.py 56-60: model.train(), model.to(device), monitor.start().
FitSetup ==
    /\ pc = "fit_setup"
    /\ mode' = "train"
    /\ monitor' = "started"
    /\ epoch' = start_epoch
    /\ pc' = "epoch_head"
    /\ UNCHANGED fvars
    /\ UNCHANGED <<op, max_epoch, ckpt_path, ckpt_file, nTrain, nVal, nTest,
                   trainKinds, valKind, hasScheduler, global_train_loader,
                   params, optState, schedState, grad, start_epoch,
                   batch_index, training_outs, val_index, loss_list,
                   epochs_run, total_outputs, stderr, written, prediction_file,
                   raised>>

\* trainer.py 62-65: for epoch in range(start_epoch, self.max_epoch + 1).
\* Between iterations `epoch` holds the next value the range yields.
EpochHead ==
    /\ pc = "epoch_head"
    /\ IF epoch <= max_epoch
       THEN /\ epochs_run' = Append(epochs_run, epoch)
            /\ batch_index' = 0
            /\ pc' = "train_head"
       ELSE /\ pc' = "fit_end"
            /\ UNCHANGED <<epochs_run, batch_index>>
    /\ UNCHANGED fvars
    /\ UNCHANGED <<op, max_epoch, ckpt_path, ckpt_file, nTrain, nVal, nTest,
                   trainKinds, valKind, hasScheduler, global_train_loader,
                   params, optState, schedState, grad, mode, start_epoch,
                   epoch, training_outs, val_index, loss_list, total_outputs,
                   monitor, stderr, written, prediction_file, raised>>

\* trainer.py 67-69: the next batch of train_loader, or the end of the loop.
TrainHead ==
    /\ pc = "train_head"
    /\ pc' = IF batch_index < nTrain THEN "zero_grad" ELSE "train_epoch_end"
    /\ UNCHANGED fvars
    /\ UNCHANGED <<op, max_epoch, ckpt_path, ckpt_file, nTrain, nVal, nTest,
                   trainKinds, valKind, hasScheduler, global_train_loader,
                   params, optState, schedState, grad, mode, start_epoch,
                   epoch, batch_index, training_outs, val_index, loss_list,
                   epochs_run, total_outputs, monitor, stderr, written,
                   prediction_file, raised>>

\* trainer.py 71: model.optimizer.zero_grad(set_to_none=True).
ZeroGrad ==
    /\ pc = "zero_grad"
    /\ grad' = "none"
    /\ pc' = "training_step"
    /\ UNCHANGED fvars
    /\ UNCHANGED <<op, max_epoch, ckpt_path, ckpt_file, nTrain, nVal, nTest,
                   trainKinds, valKind, hasScheduler, global_train_loader,
                   params, optState, schedState, mode, start_epoch,
                   epoch, batch_index, training_outs, val_index, loss_list,
                   epochs_run, total_outputs, monitor, stderr, written,
                   prediction_file, raised>>

\* trainer.py 73-76: training_outs = model.training_step(inputs, labels).
TrainingStep ==
    /\ pc = "training_step"
    /\ training_outs' = trainKinds[batch_index + 1]
    /\ pc' = "backward"
    /\ UNCHANGED fvars
    /\ UNCHANGED <<op, max_epoch, ckpt_path, ckpt_file, nTrain, nVal, nTest,
                   trainKinds, valKind, hasScheduler, global_train_loader,
                   params, optState, schedState, grad, mode, start_epoch,
                   epoch, batch_index, val_index, loss_list,
                   epochs_run, total_outputs, monitor, stderr, written,
                   prediction_file, raised>>

\* trainer.py 78-86: backward() on the loss, by the type of training_outs.
Backward ==
    /\ pc = "backward"
    /\ LET out == BackwardOutcome(training_outs) IN
       /\ grad' = IF out.backward THEN "fresh" ELSE grad
       /\ stderr' = stderr \o out.err
       /\ IF out.exc = "none"
          THEN pc' = "optimizer_step" /\ UNCHANGED raised
          ELSE Raise(out.exc)
    /\ UNCHANGED fvars
    /\ UNCHANGED <<op, max_epoch, ckpt_path, ckpt_file, nTrain, nVal, nTest,
                   trainKinds, valKind, hasScheduler, global_train_loader,
                   params, optState, schedState, mode, start_epoch,
                   epoch, batch_index, training_outs, val_index, loss_list,
                   epochs_run, total_outputs, monitor, written,
                   prediction_file>>

\* trainer.py 89: model.optimizer_step().
OptimizerStep ==
    /\ pc = "optimizer_step"
    /\ params' = params + 1
    /\ optState' = optState + 1
    /\ pc' = "lr_scheduler_step"
    /\ UNCHANGED fvars
    /\ UNCHANGED <<op, max_epoch, ckpt_path, ckpt_file, nTrain, nVal, nTest,
                   trainKinds, valKind, hasScheduler, global_train_loader,
                   schedState, grad, mode, start_epoch,
                   epoch, batch_index, training_outs, val_index, loss_list,
                   epochs_run, total_outputs, monitor, stderr, written,
                   prediction_file, raised>>

\* trainer.py 92-95: model.lr_scheduler_step(), then the next batch.
LrSchedulerStep ==
    /\ pc = "lr_scheduler_step"
    /\ schedState' = IF hasScheduler THEN schedState + 1 ELSE schedState
    /\ batch_index' = batch_index + 1
    /\ pc' = "train_head"
    /\ UNCHANGED fvars
    /\ UNCHANGED <<op, max_epoch, ckpt_path, ckpt_file, nTrain, nVal, nTest,
                   trainKinds, valKind, hasScheduler, global_train_loader,
                   params, optState, grad, mode, start_epoch,
                   epoch, training_outs, val_index, loss_list,
                   epochs_run, total_outputs, monitor, stderr, written,
                   prediction_file, raised>>

\* trainer.py 97-103: training_epoch_end, then the empty validation lists.
TrainEpochEnd ==
    /\ pc = "train_epoch_end"
    /\ val_index' = 0
    /\ loss_list' = 0
    /\ pc' = "val_head"
    /\ UNCHANGED fvars
    /\ UNCHANGED <<op, max_epoch, ckpt_path, ckpt_file, nTrain, nVal, nTest,
                   trainKinds, valKind, hasScheduler, global_train_loader,
                   params, optState, schedState, grad, mode, start_epoch,
                   epoch, batch_index, training_outs,
                   epochs_run, total_outputs, monitor, stderr, written,
                   prediction_file, raised>>

\* trainer.py 105-107: the next batch of validation_loader, or the end.
ValHead ==
    /\ pc = "val_head"
    /\ pc' = IF val_index < nVal THEN "validation_step" ELSE "mean_loss"
    /\ UNCHANGED fvars
    /\ UNCHANGED <<op, max_epoch, ckpt_path, ckpt_file, nTrain, nVal, nTest,
                   trainKinds, valKind, hasScheduler, global_train_loader,
                   params, optState, schedState, grad, mode, start_epoch,
                   epoch, batch_index, training_outs, val_index, loss_list,
                   epochs_run, total_outputs, monitor, stderr, written,
                   prediction_file, raised>>

\* trainer.py 109-123: validation_step and the loss it adds to loss_list.
ValidationStep ==
    /\ pc = "validation_step"
    /\ LET out == ValidationOutcome(valKind) IN
       /\ loss_list' = IF out.loss THEN loss_list + 1 ELSE loss_list
       /\ stderr' = stderr \o out.err
       /\ IF out.exc = "none"
          THEN /\ val_index' = val_index + 1
               /\ pc' = "val_head"
               /\ UNCHANGED raised
          ELSE /\ Raise(out.exc)
               /\ UNCHANGED val_index
    /\ UNCHANGED fvars
    /\ UNCHANGED <<op, max_epoch, ckpt_path, ckpt_file, nTrain, nVal, nTest,
                   trainKinds, valKind, hasScheduler, global_train_loader,
                   params, optState, schedState, grad, mode, start_epoch,
                   epoch, batch_index, training_outs,
                   epochs_run, total_outputs, monitor, written,
                   prediction_file>>

\* trainer.py 125-136: mean_loss = sum(loss_list) / len(loss_list).
MeanLoss ==
    /\ pc = "mean_loss"
    /\ IF loss_list = 0
       THEN Raise("ZeroDivisionError")
       ELSE pc' = "save" /\ UNCHANGED raised
    /\ UNCHANGED fvars
    /\ UNCHANGED <<op, max_epoch, ckpt_path, ckpt_file, nTrain, nVal, nTest,
                   trainKinds, valKind, hasScheduler, global_train_loader,
                   params, optState, schedState, grad, mode, start_epoch,
                   epoch, batch_index, training_outs, val_index, loss_list,
                   epochs_run, total_outputs, monitor, stderr, written,
                   prediction_file>>

\* trainer.py 138-147: torch.save of the epoch's states_dict.
Save ==
    /\ pc = "save"
    /\ written' = Append(written, StatesDict(epoch, params, optState, schedState,
                                         hasScheduler))
    /\ epoch' = epoch + 1
    /\ pc' = "epoch_head"
    /\ UNCHANGED fvars
    /\ UNCHANGED <<op, max_epoch, ckpt_path, ckpt_file, nTrain, nVal, nTest,
                   trainKinds, valKind, hasScheduler, global_train_loader,
                   params, optState, schedState, grad, mode, start_epoch,
                   batch_index, training_outs, val_index, loss_list,
                   epochs_run, total_outputs, monitor, stderr,
                   prediction_file, raised>>

\* trainer.py 149-152: monitor.stop() and the return.
FitEnd ==
    /\ pc = "fit_end"
    /\ monitor' = "stopped"
    /\ pc' = "done"
    /\ UNCHANGED fvars
    /\ UNCHANGED <<op, max_epoch, ckpt_path, ckpt_file, nTrain, nVal, nTest,
                   trainKinds, valKind, hasScheduler, global_train_loader,
                   params, optState, schedState, grad, mode, start_epoch,
                   epoch, batch_index, training_outs, val_index, loss_list,
                   epochs_run, total_outputs, stderr, written,
                   prediction_file, raised>>

\* --------------------------------------------------------------- predict
\* trainer.py 160-167: load the checkpoint; a failure is reported and
\* predict goes on.
PredictLoad ==
    /\ pc = "predict_load"
    /\ CASE ckpt_path = "missing" ->
              /\ stderr' = Append(stderr, NotExistMsg)
              /\ UNCHANGED params
         [] ckpt_path = "ioerror" ->
              /\ stderr' = Append(stderr, LoadWrongMsg)
              /\ UNCHANGED params
         [] OTHER ->
              /\ params' = ckpt_file.state_dict
              /\ UNCHANGED stderr
    /\ pc' = "predict_setup"
    /\ UNCHANGED fvars
    /\ UNCHANGED <<op, max_epoch, ckpt_path, ckpt_file, nTrain, nVal, nTest,
                   trainKinds, valKind, hasScheduler, global_train_loader,
                   optState, schedState, grad, mode, start_epoch,
                   epoch, batch_index, training_outs, val_index, loss_list,
                   epochs_run, total_outputs, monitor, written,
                   prediction_file, raised>>

\* trainer.py 169-174: model.eval(), total_outputs = [], and
\* total_per_epoch = len(train_loader), a name predict does not define.
PredictSetup ==
    /\ pc = "predict_setup"
    /\ mode' = "eval"
    /\ total_outputs' = <<>>
    /\ batch_index' = 0
    /\ IF global_train_loader = <<>>
       THEN Raise("NameError")
       ELSE pc' = "predict_loop" /\ UNCHANGED raised
    /\ UNCHANGED fvars
    /\ UNCHANGED <<op, max_epoch, ckpt_path, ckpt_file, nTrain, nVal, nTest,
                   trainKinds, valKind, hasScheduler, global_train_loader,
                   params, optState, schedState, grad, start_epoch,
                   epoch, training_outs, val_index, loss_list,
                   epochs_run, monitor, stderr, written, prediction_file>>

\* trainer.py 175-183: one batch of test_loader through predict_step.
PredictBatch ==
    /\ pc = "predict_loop"
    /\ batch_index < nTest
    /\ total_outputs' = Append(total_outputs, PredictStep(batch_index + 1, params))
    /\ batch_index' = batch_index + 1
    /\ UNCHANGED fvars
    /\ UNCHANGED <<op, pc, max_epoch, ckpt_path, ckpt_file, nTrain, nVal, nTest,
                   trainKinds, valKind, hasScheduler, global_train_loader,
                   params, optState, schedState, grad, mode, start_epoch,
                   epoch, training_outs, val_index, loss_list,
                   epochs_run, monitor, stderr, written, prediction_file,
                   raised>>

\* trainer.py 185-189: torch.cat of the outputs and torch.save of the
\* result; torch.cat of an empty list raises.
PredictSave ==
    /\ pc = "predict_loop"
    /\ batch_index = nTest
    /\ IF total_outputs = <<>>
       THEN Raise("RuntimeError") /\ UNCHANGED prediction_file
       ELSE /\ prediction_file' = << Cat(total_outputs) >>
            /\ pc' = "done"
            /\ UNCHANGED raised
    /\ UNCHANGED fvars
    /\ UNCHANGED <<op, max_epoch, ckpt_path, ckpt_file, nTrain, nVal, nTest,
                   trainKinds, valKind, hasScheduler, global_train_loader,
                   params, optState, schedState, grad, mode, start_epoch,
                   epoch, batch_index, training_outs, val_index, loss_list,
                   epochs_run, total_outputs, monitor, stderr, written>>

\* No forward pass is modelled inside the Trainer's steps.
ForwardIdle ==
    /\ fpc = "idle" /\ sequence = 0 /\ layers = 0 /\ out_len = 0
    /\ s = 0 /\ step = 0 /\ li = 0 /\ h = <<>> /\ c = <<>>
    /\ prediction = <<>> /\ fraised = "none"

InitT == InitTrainer /\ ForwardIdle

NextT ==
    \/ FitLoad \/ FitSetup \/ EpochHead \/ TrainHead \/ ZeroGrad
    \/ TrainingStep \/ Backward \/ OptimizerStep \/ LrSchedulerStep
    \/ TrainEpochEnd \/ ValHead \/ ValidationStep \/ MeanLoss \/ Save
    \/ FitEnd
    \/ PredictLoad \/ PredictSetup \/ PredictBatch \/ PredictSave

SpecTrainer == InitT /\ [][NextT]_vars

\* ------------------------------------------------------ ConvLSTM.forward
\* The inputs a cell call reads, as tags: frame t of the input sequence, the
\* all-zero frame of the forecast, or the hidden state of the layer below
\* after its `idx`-th update.
Frame(t) == [src |-> "frame", idx |-> t]
ZeroFrame == [src |-> "zeros", idx |-> 0]
Hidden(hs, i) == [src |-> "h", idx |-> Len(hs[i])]

\* ConvLSTMCell.forward(x, h, c) -> (h, c): the new states fold x into the
\* old ones.
Cell(x, hi, ci) == [h |-> Append(hi, x), c |-> Append(ci, x)]

\* ConvLSTM.py 128 / 182: the input of layer i >= 1 (1-based here: i >= 2)
\* is h[i - 1] as the list holds it when the call is made.
LayerInput_PreviousStep(hs, i) ==
    [src |-> "h", idx |-> IF Len(hs[i - 1]) > 0 THEN Len(hs[i - 1]) - 1 ELSE 0]

LayerInput(hs, i) == Hidden(hs, i - 1)

\* ConvLSTM.py 122: for s in range(sequence): the time steps the encoder runs.
EncoderSteps_OffByOne(seq) == IF seq > 0 THEN seq - 1 ELSE 0

EncoderSteps(seq) == seq

\* ConvLSTM.py 184-186: conv_last over the concatenation of every layer's h.
Pred(hs) == [i \in 1..Len(hs) |-> Len(hs[i])]

TrainerIdle ==
    /\ op = "idle" /\ pc = "idle" /\ max_epoch = 0
    /\ ckpt_path = "none" /\ ckpt_file = NoCheckpoint
    /\ nTrain = 0 /\ nVal = 0 /\ nTest = 0
    /\ trainKinds = <<>> /\ valKind = "tensor"
    /\ hasScheduler = FALSE /\ global_train_loader = <<>>
    /\ TrainerLocals

InitF ==
    /\ TrainerIdle
    /\ fpc = "encoder_init"
    /\ sequence \in 0..MaxSeq
    /\ layers \in 1..MaxLayers
    /\ out_len \in 0..MaxOut
    /\ s = 0 /\ step = 0 /\ li = 0
    /\ h = <<>> /\ c = <<>>
    /\ prediction = <<>>
    /\ fraised = "none"

\* ConvLSTM.py 36, 107-119: Encoder.forward's zero states for every layer.
EncoderInit ==
    /\ fpc = "encoder_init"
    /\ h' = [i \in 1..layers |-> <<>>]
    /\ c' = [i \in 1..layers |-> <<>>]
    /\ s' = 0
    /\ fpc' = "encoder_step"
    /\ UNCHANGED tvars
    /\ UNCHANGED <<sequence, layers, out_len, step, li, prediction, fraised>>

\* ConvLSTM.py 122-125: x = inputs[:, s] through the cell of layer 0.
EncoderLayer0 ==
    /\ fpc = "encoder_step"
    /\ s < EncoderSteps(sequence)
    /\ LET new == Cell(Frame(s + 1), h[1], c[1]) IN
       /\ h' = [h EXCEPT ![1] = new.h]
       /\ c' = [c EXCEPT ![1] = new.c]
    /\ li' = 2
    /\ fpc' = "encoder_layers"
    /\ UNCHANGED tvars
    /\ UNCHANGED <<sequence, layers, out_len, s, step, prediction, fraised>>

\* ConvLSTM.py 127-128: the cell of layer i on h[i - 1].
EncoderLayerI ==
    /\ fpc = "encoder_layers"
    /\ li <= layers
    /\ LET new == Cell(LayerInput(h, li), h[li], c[li]) IN
       /\ h' = [h EXCEPT ![li] = new.h]
       /\ c' = [c EXCEPT ![li] = new.c]
    /\ li' = li + 1
    /\ UNCHANGED tvars
    /\ UNCHANGED <<fpc, sequence, layers, out_len, s, step, prediction, fraised>>

\* ConvLSTM.py 122, 127: the inner loop is over; the next time step.
EncoderStepEnd ==
    /\ fpc = "encoder_layers"
    /\ li > layers
    /\ s' = s + 1
    /\ fpc' = "encoder_step"
    /\ UNCHANGED tvars
    /\ UNCHANGED <<sequence, layers, out_len, step, li, h, c, prediction, fraised>>

\* ConvLSTM.py 130, 37, 172-174: the encoder returns (h, c) and the
\* forecast starts on the same lists with an empty prediction.
EncoderReturn ==
    /\ fpc = "encoder_step"
    /\ s = EncoderSteps(sequence)
    /\ prediction' = <<>>
    /\ step' = 0
    /\ fpc' = "forecast_step"
    /\ UNCHANGED tvars
    /\ UNCHANGED <<sequence, layers, out_len, s, li, h, c, fraised>>

\* ConvLSTM.py 176-179: an all-zero frame through the cell of layer 0.
ForecastLayer0 ==
    /\ fpc = "forecast_step"
    /\ step < out_len
    /\ LET new == Cell(ZeroFrame, h[1], c[1]) IN
       /\ h' = [h EXCEPT ![1] = new.h]
       /\ c' = [c EXCEPT ![1] = new.c]
    /\ li' = 2
    /\ fpc' = "forecast_layers"
    /\ UNCHANGED tvars
    /\ UNCHANGED <<sequence, layers, out_len, s, step, prediction, fraised>>

\* ConvLSTM.py 181-182: the cell of layer i on h[i - 1].
ForecastLayerI ==
    /\ fpc = "forecast_layers"
    /\ li <= layers
    /\ LET new == Cell(LayerInput(h, li), h[li], c[li]) IN
       /\ h' = [h EXCEPT ![li] = new.h]
       /\ c' = [c EXCEPT ![li] = new.c]
    /\ li' = li + 1
    /\ UNCHANGED tvars
    /\ UNCHANGED <<fpc, sequence, layers, out_len, s, step, prediction, fraised>>

\* ConvLSTM.py 184-188: pred = conv_last(cat(h)); prediction.append(pred).
ForecastEmit ==
    /\ fpc = "forecast_layers"
    /\ li > layers
    /\ prediction' = Append(prediction, Pred(h))
    /\ step' = step + 1
    /\ fpc' = "forecast_step"
    /\ UNCHANGED tvars
    /\ UNCHANGED <<sequence, layers, out_len, s, li, h, c, fraised>>

\* ConvLSTM.py 190-192, 38: torch.stack of the frames (it raises on an
\* empty list) and the return.
ForecastReturn ==
    /\ fpc = "forecast_step"
    /\ step = out_len
    /\ IF prediction = <<>>
       THEN fraised' = "RuntimeError" /\ fpc' = "raised"
       ELSE fpc' = "done" /\ UNCHANGED fraised
    /\ UNCHANGED tvars
    /\ UNCHANGED <<sequence, layers, out_len, s, step, li, h, c, prediction>>

NextF ==
    \/ EncoderInit \/ EncoderLayer0 \/ EncoderLayerI \/ EncoderStepEnd
    \/ EncoderReturn
    \/ ForecastLayer0 \/ ForecastLayerI \/ ForecastEmit \/ ForecastReturn

SpecForward == InitF /\ [][NextF]_vars

\* ================================================================ claims
Terminal == {"done", "raised"}

Last(q) == q[Len(q)]

Range(a, b) == [i \in 1..(b - a + 1) |-> a + i - 1]

\* C1: whenever fit (with a ckpt_path) or predict is given a path whose file
\* does not exist, the operation writes a diagnostic message to stderr.
\* Stated as the claim makes it; fit raises FileNotFoundError and writes
\* nothing.
C1_MissingCheckpointReported ==
    (op \in {"fit", "predict"} /\ ckpt_path = "missing"
        /\ pc \notin {"fit_load", "predict_load"})
    => Len(stderr) > 0

\* C2 as the claim makes it: every malformed training-step output (a dict
\* without 'loss', or neither a Tensor nor a dict) that fit has handled left
\* a diagnostic message on stderr.
C2_EveryMalformedOutputReported ==
    (op = "fit" /\ training_outs \in {"dict_noloss", "other"} /\ pc # "backward")
    => Len(stderr) > 0

\* C2 amended: handling a dict without 'loss' appends the diagnostic message
\* to stderr and the batch goes on to optimizer_step; handling an output that
\* is neither a Tensor nor a dict writes nothing to stderr and fit raises
\* TypeError.
C2_MalformedOutputHandling ==
    [][(pc = "backward" /\ pc' # "backward") =>
          /\ training_outs = "dict_noloss" =>
                /\ stderr' = Append(stderr, TrainLossMsg)
                /\ pc' = "optimizer_step"
                /\ raised' = "none"
          /\ training_outs = "other" =>
                /\ stderr' = stderr
                /\ pc' = "raised"
                /\ raised' = "TypeError"]_vars

\* A dict without 'loss' was reported and its batch went on; the next
\* batch's output, neither Tensor nor dict, raised and wrote nothing.
C2_Witness ==
    /\ op = "fit"
    /\ pc = "raised"
    /\ raised = "TypeError"
    /\ training_outs = "other"
    /\ batch_index = 1
    /\ stderr = <<TrainLossMsg>>

LoadedParams == IF ckpt_path = "ok" THEN ckpt_file.state_dict ELSE 0

LoadedOptimizer == IF ckpt_path = "ok" THEN ckpt_file.optimizer ELSE 0

LoadedScheduler ==
    IF ckpt_path = "ok" /\ "lr_scheduler" \in DOMAIN ckpt_file /\ hasScheduler
    THEN ckpt_file.lr_scheduler ELSE 0

\* C3: every checkpoint fit writes holds 'epoch', 'state_dict' and
\* 'optimizer', and 'lr_scheduler' exactly when the model has a scheduler;
\* 'epoch' is the epoch just completed, and the model/optimizer states are
\* those after all training and validation batches of that epoch and before
\* any batch of the next.
C3_CheckpointContents ==
    /\ \A i \in 1..Len(written) :
          LET ck == written[i] IN
          /\ DOMAIN ck = {"epoch", "state_dict", "optimizer"}
                           \cup (IF hasScheduler THEN {"lr_scheduler"} ELSE {})
          /\ ck.epoch = epochs_run[i]
          /\ ck.epoch = start_epoch + i - 1
          /\ ck.state_dict = LoadedParams + i * nTrain
          /\ ck.optimizer = LoadedOptimizer + i * nTrain
          /\ hasScheduler => ck.lr_scheduler = LoadedScheduler + i * nTrain
    /\ (pc = "epoch_head" /\ written # <<>>) =>
          /\ Last(written).epoch = epoch - 1
          /\ Last(written).state_dict = params
          /\ Last(written).optimizer = optState
          /\ hasScheduler => Last(written).lr_scheduler = schedState
          /\ batch_index = nTrain
          /\ val_index = nVal

C3_Witness ==
    /\ Len(written) >= 2
    /\ hasScheduler
    /\ ckpt_path = "ok"
    /\ nTrain >= 2
    /\ nVal >= 1

EncoderPhase == {"encoder_init", "encoder_step", "encoder_layers"}

ForecastPhase == {"forecast_step", "forecast_layers", "done", "raised"}

\* C4: the encoder consumes every one of the S input frames, in time order,
\* before the first forecast step; the forecast starts from the encoder's
\* final per-layer (h, c) and appends exactly out_len frames, one per
\* forecast step, in step order.
C4_EncoderThenForecast ==
    /\ fpc \in EncoderPhase => prediction = <<>> /\ step = 0
    /\ fpc \in ForecastPhase =>
          /\ s = sequence
          /\ \A i \in 1..layers : Len(h[i]) >= sequence /\ Len(c[i]) >= sequence
          /\ \A t \in 1..Len(h[1]) :
                /\ h[1][t] = (IF t <= sequence THEN Frame(t) ELSE ZeroFrame)
                /\ c[1][t] = h[1][t]
          /\ Len(prediction) = step
          /\ step <= out_len
          /\ \A k \in 1..Len(prediction) :
                prediction[k] = [i \in 1..layers |-> sequence + k]
    /\ fpc \in {"done", "raised"} => Len(prediction) = out_len

C4_Witness ==
    /\ fpc = "done"
    /\ sequence >= 2
    /\ out_len >= 2
    /\ layers >= 2
    /\ Len(prediction) = out_len

\* C5 as the claim makes it: a fit whose checkpoint (if any) loads and whose
\* step outputs are Tensors has, when it ends, run exactly the epochs
\* start_epoch..max_epoch in order and written exactly one checkpoint per
\* epoch; resuming at or past max_epoch runs nothing and writes nothing.
C5_EpochsAndCheckpoints ==
    (op = "fit" /\ pc \in Terminal /\ ckpt_path \in {"none", "ok"}
        /\ (\A b \in 1..nTrain : trainKinds[b] = "tensor") /\ valKind = "tensor")
    => /\ start_epoch = (IF ckpt_path = "ok" THEN ckpt_file.epoch + 1 ELSE 1)
       /\ epochs_run = Range(start_epoch, max_epoch)
       /\ Len(written) = Len(epochs_run)
       /\ \A i \in 1..Len(written) : written[i].epoch = epochs_run[i]
       /\ (ckpt_path = "ok" /\ ckpt_file.epoch >= max_epoch) =>
             (epochs_run = <<>> /\ written = <<>> /\ params = LoadedParams)

\* C6 as the claim makes it: optimizer_step runs for a batch only after
\* backward() was called on that batch's loss, after that batch's zero_grad.
C6_BackwardBeforeOptimizerStep ==
    pc = "optimizer_step" => grad = "fresh"

\* C7: at every time step of the encoder and of the forecast each layer's
\* (h, c) is updated exactly once, in increasing layer order; layer 0 reads
\* the step's input (the frame, or zeros in the forecast) and layer i >= 1
\* reads h[i-1] as updated in the same time step.
C7_LayerUpdates ==
    LET done == s + step IN
    \A i \in 1..Len(h) :
       /\ Len(h[i]) = (IF fpc \in {"encoder_layers", "forecast_layers"} /\ i < li
                       THEN done + 1 ELSE done)
       /\ c[i] = h[i]
       /\ \A t \in 1..Len(h[i]) :
             h[i][t] = (IF i = 1
                        THEN (IF t <= sequence THEN Frame(t) ELSE ZeroFrame)
                        ELSE [src |-> "h", idx |-> t])

C7_Witness ==
    /\ fpc = "forecast_layers"
    /\ layers >= 3
    /\ li = 3
    /\ sequence >= 2
    /\ step >= 1
    /\ Len(h[2]) = Len(h[3]) + 1

\* C8 as the claim makes it: for every validation loader and every
\* validation-step output that is a Tensor or a dict, the mean validation
\* loss is computed over a non-empty list, so the epoch goes on to its
\* checkpoint.
C8_MeanLossOverNonEmptyList ==
    (op = "fit" /\ valKind \in {"tensor", "dict_loss", "dict_noloss"})
    => /\ pc = "mean_loss" => loss_list > 0
       /\ raised # "ZeroDivisionError"

\* C9 as the claim makes it: predict with a loadable checkpoint and a
\* non-empty test_loader ends normally whatever names exist outside the call,
\* having called predict_step once per batch in loader order and saved the
\* concatenation of the outputs.
C9_PredictCompletes ==
    (op = "predict" /\ ckpt_path = "ok" /\ nTest > 0 /\ pc \in Terminal)
    => /\ pc = "done"
       /\ total_outputs = [b \in 1..nTest |-> PredictStep(b, ckpt_file.state_dict)]
       /\ prediction_file =
             << [b \in 1..nTest |-> [batch |-> b, params |-> ckpt_file.state_dict]] >>

\* C10 as the claim makes it: when loading the checkpoint fails, predict
\* runs no predict_step and writes no prediction file.
C10_NoPredictionWithoutCheckpoint ==
    (op = "predict" /\ ckpt_path \in {"missing", "ioerror"})
    => /\ total_outputs = <<>>
       /\ prediction_file = <<>>

====
